---- MODULE Spec2Model ----
(***************************************************************************)
(* A model of main.py of DigtwinActuator: the sheet loader leer_promedios  *)
(* (header deduplication, the frecuencia column, the two renamings, the    *)
(* derived Force column) and the module-level folder loop that lists the   *)
(* trial folders, reads every frequency file, writes the CSV files and the *)
(* charts and prints one line per folder.                                  *)
(*                                                                         *)
(* Representation.                                                         *)
(*   - A spreadsheet cell or a header cell is <<>> (Python None) or <<v>>. *)
(*   - A column name of a DataFrame is a string; the suffix of a repeated  *)
(*     header is built by string concatenation as the f-string does.       *)
(*   - A DataFrame is [columns |-> Seq(name), data |-> Seq(row)], a row a  *)
(*     sequence of cells as long as columns.                               *)
(*   - A file or folder name is a sequence of tokens ("frequency_", "1",   *)
(*     ".xlsm"); startswith / endswith / replace act on the tokens.        *)
(*   - A float is an exact decimal: 0.00079173 is AreaNum * 10^-8 and      *)
(*     6894.76 is PsiNum * 10^-2; a Force value is the numerator of the    *)
(*     product over 10^10, kept as [hi, lo] with value hi * 1000 + lo so   *)
(*     that every intermediate value fits 32 bits.  Binary64 rounding is not      *)
(*     modelled.                                                           *)
(*   - An uncaught Python exception ends the run: pc = "raised_load" or     *)
(*     "raised_concat", after the call that raised.                        *)
(***************************************************************************)
EXTENDS Integers, Sequences, FiniteSets, TLC

VARIABLES root, pc, fi, vistos, leido, consolidado_total, origen, df_todo,
          salida, log, wb, frec, df

(* root               the listing of ROOT_DIR (line 195)                     *)
(* pc                 where the script is: "folders" (line 195), "files"     *)
(*                    (line 209), "done", "raised_load" (line 53 raised),    *)
(*                    "raised_concat" (line 220 raised); "leer" / "leido"    *)
(*                    before / after one call of leer_promedios              *)
(* fi                 the index in root of the folder of the current         *)
(*                    iteration (0 before the first)                         *)
(* vistos             the names the listing of proc_path has yielded so far  *)
(* leido              the entry read last: its name and the kind of its      *)
(*                    workbook                                               *)
(* consolidado_total  the accumulator list of line 208                       *)
(* origen             for each accumulated table, the folder and the file it *)
(*                    was read from                                          *)
(* df_todo            the consolidated table of line 220, once assigned      *)
(* salida             the output directory of every entry of root            *)
(* log                the lines printed (lines 248 and 250)                  *)
(* wb, frec, df       the workbook and the label given to leer_promedios,    *)
(*                    and its result                                         *)

vars == <<root, pc, fi, vistos, leido, consolidado_total, origen, df_todo,
          salida, log, wb, frec, df>>

-----------------------------------------------------------------------------
(* Bounds of the model.                                                    *)

MaxFolders == 2    \* entries of ROOT_DIR
MaxFiles == 2      \* entries of one Processing directory
MaxLen == 3        \* header cells of a Promedios sheet (loader specification)
MaxRows == 2       \* data rows of a Promedios sheet (loader specification)
MaxCell == 2       \* largest cell value of a data row (loader specification)

-----------------------------------------------------------------------------
(* Cells.                                                                  *)

None == <<>>
Some(v) == <<v>>
Val(c) == c[1]

RECURSIVE SumSeq(_)
SumSeq(s) == IF s = <<>> THEN 0 ELSE Head(s) + SumSeq(Tail(s))

Range(s) == {s[i] : i \in DOMAIN s}

-----------------------------------------------------------------------------
(* frecuencia_map and the file-name tests of the folder loop.              *)

frecuencia_map ==
    (<<"frequency_", "1">> :> "0.25Hz") @@
    (<<"frequency_", "2">> :> "0.125Hz") @@
    (<<"frequency_", "3">> :> "0.05Hz")

\* dict.get(clave): the value, or None
MapGet(clave) ==
    IF clave \in DOMAIN frecuencia_map THEN Some(frecuencia_map[clave]) ELSE None

\* archivo.startswith("frequency_") and archivo.endswith(".xlsm")
PassesFilter(archivo) ==
    /\ Len(archivo) >= 1
    /\ archivo[1] = "frequency_"
    /\ archivo[Len(archivo)] = ".xlsm"

\* archivo.replace(".xlsm", ""): every occurrence is removed
Clave(archivo) == SelectSeq(archivo, LAMBDA t : t # ".xlsm")

\* str(frecuencia) as the f-string of the CSV name formats it
FrecStr(frecuencia) == IF frecuencia = None THEN "None" ELSE Val(frecuencia)

CsvName(frecuencia) == FrecStr(frecuencia) \o "_promedios.csv"

-----------------------------------------------------------------------------
(* leer_promedios.                                                         *)

\* a counter that numbers the repeats from 0 instead of 1
SuffixedZeroBased(col, n) == col \o "_" \o ToString(n - 1)

\* f"{col}_{col_count[col]}"
Suffixed(col, n) == col \o "_" \o ToString(n)

\* the loop over columns: col_count is a function on the names seen so far
RECURSIVE DedupFrom(_, _, _, _)
DedupFrom(columns, i, col_count, final_cols) ==
    IF i > Len(columns) THEN final_cols
    ELSE LET col == IF columns[i] = None THEN "Unnamed" ELSE Val(columns[i])
         IN  IF col \notin DOMAIN col_count
             THEN DedupFrom(columns, i + 1, col_count @@ (col :> 0),
                            Append(final_cols, col))
             ELSE DedupFrom(columns, i + 1,
                            [col_count EXCEPT ![col] = @ + 1],
                            Append(final_cols, Suffixed(col, col_count[col] + 1)))

Dedup(columns) == DedupFrom(columns, 1, <<>>, <<>>)

\* df[name] = values (one value per row): every column called name is set,
\* and when there is none a new last column is added
SetColumn(d, name, values) ==
    IF \E j \in DOMAIN d.columns : d.columns[j] = name
    THEN [d EXCEPT !.data =
            [r \in DOMAIN d.data |->
                [j \in DOMAIN d.columns |->
                    IF d.columns[j] = name THEN values[r] ELSE d.data[r][j]]]]
    ELSE [columns |-> Append(d.columns, name),
          data |-> [r \in DOMAIN d.data |-> Append(d.data[r], values[r])]]

\* df.rename(columns={old: new}, inplace=True) under "if old in df.columns"
Rename(d, old, new) ==
    [d EXCEPT !.columns =
        [j \in DOMAIN d.columns |-> IF d.columns[j] = old THEN new ELSE d.columns[j]]]

\* the second renaming forgotten
RenameSlideOnly(d) == Rename(d, "slide", "Unity theoretical")

RenameAll(d) ==
    Rename(Rename(d, "slide", "Unity theoretical"),
           "Experimental", "Laser experimental")

AreaNum == 79173      \* 0.00079173 = AreaNum * 10^-8
PsiNum == 689476      \* 6894.76    = PsiNum  * 10^-2

\* a * b for b < 10^6, as [hi, lo] with value hi * 1000 + lo
WideMul(a, b) ==
    LET b1 == b \div 1000
        b0 == b % 1000
    IN  [hi |-> a * b1 + ((a * b0) \div 1000), lo |-> (a * b0) % 1000]

\* [hi, lo] * p
WideScale(w, p) ==
    [hi |-> w.hi * p + ((w.lo * p) \div 1000), lo |-> (w.lo * p) % 1000]

\* the conversion constant rounded to 6894.75
ForceOfRounded(pressure) == WideScale(WideMul(AreaNum, 689475), pressure)

\* 0.00079173 * 6894.76 * pressure, evaluated left to right
ForceOf(pressure) == WideScale(WideMul(AreaNum, PsiNum), pressure)

ColIndex(d, name) == CHOOSE j \in DOMAIN d.columns : d.columns[j] = name

\* if "Pressure" in df.columns: df["Force"] = 0.00079173 * 6894.76 * df["Pressure"]
AddForce(d) ==
    IF \E j \in DOMAIN d.columns : d.columns[j] = "Pressure"
    THEN SetColumn(d, "Force",
                   [r \in DOMAIN d.data |->
                       Some(ForceOf(Val(d.data[r][ColIndex(d, "Pressure")])))])
    ELSE d

\* data = [row for row in data if any(cell is not None for cell in row)]
NonEmptyRows(rows) == SelectSeq(rows, LAMBDA row : \E j \in DOMAIN row : row[j] # None)

\* A workbook is [kind |-> "unreadable", rows |-> <<>>] (load_workbook raises),
\* [kind |-> "nosheet", rows |-> <<>>] (no sheet called Promedios) or
\* [kind |-> "sheet", rows |-> the rows of Promedios].
\* The result is [st |-> "raise"], [st |-> "none"] (return None) or
\* [st |-> "df", df |-> the DataFrame returned].
leer_promedios(workbook, frecuencia) ==
    IF workbook.kind = "unreadable" THEN [st |-> "raise"]
    ELSE IF workbook.kind = "nosheet" THEN [st |-> "none"]
    ELSE LET data == NonEmptyRows(workbook.rows)
         IN  IF Len(data) < 2 THEN [st |-> "none"]
             ELSE LET d0 == [columns |-> Dedup(data[1]), data |-> Tail(data)]
                      d1 == SetColumn(d0, "frecuencia",
                                      [r \in DOMAIN d0.data |-> frecuencia])
                  IN  [st |-> "df", df |-> AddForce(RenameAll(d1))]

-----------------------------------------------------------------------------
(* pandas and the plotting functions, as far as the folder loop uses them. *)

\* df.empty: no rows or no columns
IsEmpty(d) == Len(d.data) = 0 \/ Len(d.columns) = 0

HasDuplicates(cols) == \E i, j \in DOMAIN cols : i # j /\ cols[i] = cols[j]

\* the union of the column lists in order of first appearance
RECURSIVE UnionCols(_, _)
UnionCols(dfs, acc) ==
    IF dfs = <<>> THEN acc
    ELSE UnionCols(Tail(dfs),
                   acc \o SelectSeq(Head(dfs).columns,
                                    LAMBDA c : c \notin Range(acc)))

\* one row of a table laid out on the columns cols; a missing column is NaN
Reindex(d, row, cols) ==
    [j \in DOMAIN cols |->
        IF cols[j] \in Range(d.columns) THEN row[ColIndex(d, cols[j])] ELSE None]

RECURSIVE ConcatRows(_, _)
ConcatRows(dfs, cols) ==
    IF dfs = <<>> THEN <<>>
    ELSE [r \in DOMAIN Head(dfs).data |-> Reindex(Head(dfs), Head(dfs).data[r], cols)]
         \o ConcatRows(Tail(dfs), cols)

RECURSIVE AllRows(_)
AllRows(dfs) == IF dfs = <<>> THEN <<>> ELSE Head(dfs).data \o AllRows(Tail(dfs))

\* only the first accumulated table is kept
ConcatFirstOnly(dfs) == [st |-> "df", df |-> dfs[1]]

\* pd.concat(dfs, ignore_index=True) of a non-empty list: equal column lists
\* are kept as they are; otherwise the columns are joined, which pandas
\* refuses (InvalidIndexError) when a column list has a repeated name.
Concat(dfs) ==
    IF \A k \in DOMAIN dfs : dfs[k].columns = dfs[1].columns
    THEN [st |-> "df", df |-> [columns |-> dfs[1].columns, data |-> AllRows(dfs)]]
    ELSE IF \E k \in DOMAIN dfs : HasDuplicates(dfs[k].columns)
    THEN [st |-> "raise"]
    ELSE LET cols == UnionCols(dfs, <<>>)
         IN  [st |-> "df", df |-> [columns |-> cols, data |-> ConcatRows(dfs, cols)]]

\* the two files savefig writes for one chart
ChartFiles(nombre) == {nombre \o ".png", nombre \o ".pdf"}

\* the time-vs-dac_bits chart written without its column test
ChartsDacAlways(d) ==
    LET cols == Range(d.columns)
    IN  (IF {"Unity theoretical", "Laser experimental"} \subseteq cols
         THEN ChartFiles("unity_vs_laser") ELSE {})
        \cup (IF {"time", "Unity theoretical"} \subseteq cols
              THEN ChartFiles("time_vs_unity") ELSE {})
        \cup (IF {"time", "Laser experimental"} \subseteq cols
              THEN ChartFiles("time_vs_laser") ELSE {})
        \cup ChartFiles("time_vs_dac_bits")
        \cup (IF {"Laser experimental", "Force"} \subseteq cols
              THEN ChartFiles("laser_vs_force") ELSE {})
        \cup ChartFiles("time_vs_experimental_vs_theoretical")

\* lines 224-246: the charts written for the consolidated table d
Charts(d) ==
    LET cols == Range(d.columns)
    IN  (IF {"Unity theoretical", "Laser experimental"} \subseteq cols
         THEN ChartFiles("unity_vs_laser") ELSE {})
        \cup (IF {"time", "Unity theoretical"} \subseteq cols
              THEN ChartFiles("time_vs_unity") ELSE {})
        \cup (IF {"time", "Laser experimental"} \subseteq cols
              THEN ChartFiles("time_vs_laser") ELSE {})
        \cup (IF {"time", "dac_bits"} \subseteq cols
              THEN ChartFiles("time_vs_dac_bits") ELSE {})
        \cup (IF {"Laser experimental", "Force"} \subseteq cols
              THEN ChartFiles("laser_vs_force") ELSE {})
        \cup ChartFiles("time_vs_experimental_vs_theoretical")

-----------------------------------------------------------------------------
(* The file system the folder loop reads.                                  *)

Prefix == "Consolidate_final_results_"

\* An entry of ROOT_DIR: its name, and whether it has a Processing directory.
FolderKinds ==
    { [pre |-> Prefix, proc |-> TRUE],
      [pre |-> Prefix, proc |-> FALSE],
      [pre |-> "graficos_", proc |-> FALSE] }

Roots ==
    UNION { [1..n -> FolderKinds] : n \in 1..MaxFolders }

FolderName(i) == <<root[i].pre, ToString(i)>>

FileNames ==
    { <<"frequency_", "1", ".xlsm">>,
      <<"frequency_", "4", ".xlsm">>,
      <<"frequency_", "3", ".txt">> }

BlankRow(n) == [j \in 1..n |-> None]

SheetFull ==
    [kind |-> "sheet",
     rows |-> << <<Some("slide"), Some("Experimental"), Some("Pressure"), Some("time")>>,
                 <<Some(3), Some(4), Some(2), Some(1)>>,
                 <<Some(5), Some(6), Some(3), Some(2)>> >>]

SheetDac ==
    [kind |-> "sheet",
     rows |-> << BlankRow(2),
                 <<Some("time"), Some("dac_bits")>>,
                 BlankRow(2),
                 <<Some(1), Some(7)>> >>]

SheetRepeated ==
    [kind |-> "sheet",
     rows |-> << <<Some("value"), Some("value"), Some("value_1")>>,
                 <<Some(1), Some(2), Some(3)>> >>]

SheetHeaderOnly ==
    [kind |-> "sheet",
     rows |-> << <<Some("time"), Some("Pressure")>>, BlankRow(2) >>]

Workbooks ==
    { [kind |-> "unreadable", rows |-> <<>>],
      [kind |-> "nosheet", rows |-> <<>>],
      SheetHeaderOnly, SheetFull, SheetDac, SheetRepeated }

\* An output directory: whether os.makedirs made it, and the names of the CSV
\* files and of the chart files in it (file contents are not kept).
NoDir == [made |-> FALSE, csv |-> {}, charts |-> {}]

-----------------------------------------------------------------------------
(* The folder loop, lines 195-250.                                         *)

Idle == [kind |-> "nosheet", rows |-> <<>>]

Init ==
    /\ root \in Roots
    /\ pc = "folders"
    /\ fi = 0
    /\ vistos = {}
    /\ leido = [name |-> <<>>, kind |-> "none"]
    /\ consolidado_total = <<>>
    /\ origen = <<>>
    /\ df_todo = [st |-> "unset"]
    /\ salida = [i \in DOMAIN root |-> NoDir]
    /\ log = <<>>
    /\ wb = Idle
    /\ frec = None
    /\ df = [st |-> "unset"]

LoaderVars == <<wb, frec, df>>

\* lines 195-197: the next entry of ROOT_DIR lacks the prefix
SkipNoPrefix ==
    /\ pc = "folders"
    /\ fi < Len(root)
    /\ FolderName(fi + 1)[1] # Prefix
    /\ fi' = fi + 1
    /\ UNCHANGED <<root, pc, vistos, leido, consolidado_total, origen, df_todo,
                   salida, log, LoaderVars>>

\* lines 199-202: it has the prefix and no Processing directory
SkipNoProcessing ==
    /\ pc = "folders"
    /\ fi < Len(root)
    /\ FolderName(fi + 1)[1] = Prefix
    /\ ~root[fi + 1].proc
    /\ fi' = fi + 1
    /\ UNCHANGED <<root, pc, vistos, leido, consolidado_total, origen, df_todo,
                   salida, log, LoaderVars>>

\* lines 204-208: the output directory is made and the accumulator is a new
\* list.  df_todo is assigned before any later use, so its old value is
\* dropped here; vistos and archivo restart with the new listing.
EnterFolder ==
    /\ pc = "folders"
    /\ fi < Len(root)
    /\ FolderName(fi + 1)[1] = Prefix
    /\ root[fi + 1].proc
    /\ fi' = fi + 1
    /\ pc' = "files"
    /\ salida' = [salida EXCEPT ![fi + 1].made = TRUE]
    /\ consolidado_total' = <<>>
    /\ origen' = <<>>
    /\ df_todo' = [st |-> "unset"]
    /\ vistos' = {}
    /\ leido' = [name |-> <<>>, kind |-> "none"]
    /\ UNCHANGED <<root, log, LoaderVars>>

\* df.to_csv(path, index=False): the file is created or overwritten
ToCsv(dir, name) == [dir EXCEPT !.csv = @ \cup {name}]

\* lines 209-217, one iteration: the listing yields the entry nombre, whose
\* workbook is libro
ReadFile ==
    /\ pc = "files"
    /\ Cardinality(vistos) < MaxFiles
    /\ \E nombre \in FileNames \ vistos, libro \in Workbooks :
         /\ vistos' = vistos \cup {nombre}
         /\ leido' = [name |-> nombre, kind |-> libro.kind]
         /\ IF ~PassesFilter(nombre)
            THEN UNCHANGED <<pc, consolidado_total, origen, salida>>
            ELSE LET frecuencia == MapGet(Clave(nombre))
                     res == leer_promedios(libro, frecuencia)
                 IN  IF res.st = "raise"
                     THEN /\ pc' = "raised_load"
                          /\ UNCHANGED <<consolidado_total, origen, salida>>
                     ELSE IF res.st = "df" /\ ~IsEmpty(res.df)
                     THEN /\ salida' = [salida EXCEPT
                                          ![fi] = ToCsv(@, CsvName(frecuencia))]
                          /\ consolidado_total' = Append(consolidado_total, res.df)
                          /\ origen' = Append(origen, [carpeta |-> fi, archivo |-> nombre])
                          /\ pc' = pc
                     ELSE UNCHANGED <<pc, consolidado_total, origen, salida>>
    /\ UNCHANGED <<root, fi, df_todo, log, LoaderVars>>

\* lines 219-250: the listing is exhausted
EndFolder ==
    /\ pc = "files"
    /\ IF consolidado_total # <<>>
       THEN LET res == Concat(consolidado_total)
            IN  IF res.st = "raise"
                THEN /\ pc' = "raised_concat"
                     /\ UNCHANGED <<df_todo, salida, log>>
                ELSE /\ df_todo' = res
                     /\ salida' = [salida EXCEPT
                                     ![fi] = [ToCsv(@, "consolidado_total.csv")
                                                EXCEPT !.charts = Charts(res.df)]]
                     /\ log' = Append(log, [folder |-> fi, ok |-> TRUE])
                     /\ pc' = "folders"
       ELSE /\ log' = Append(log, [folder |-> fi, ok |-> FALSE])
            /\ pc' = "folders"
            /\ UNCHANGED <<df_todo, salida>>
    /\ UNCHANGED <<root, fi, vistos, leido, consolidado_total, origen, LoaderVars>>

\* the listing of ROOT_DIR is exhausted: the script ends
EndRun ==
    /\ pc = "folders"
    /\ fi = Len(root)
    /\ pc' = "done"
    /\ UNCHANGED <<root, fi, vistos, leido, consolidado_total, origen, df_todo,
                   salida, log, LoaderVars>>

Next ==
    \/ SkipNoPrefix
    \/ SkipNoProcessing
    \/ EnterFolder
    \/ ReadFile
    \/ EndFolder
    \/ EndRun

Spec == Init /\ [][Next]_vars

-----------------------------------------------------------------------------
(* leer_promedios on its own: the workbook and the label are drawn from    *)
(* bounded sets and the function is applied once.                          *)

HeaderCells ==
    { None, Some("time"), Some("value"), Some("value_1"), Some("slide"), Some("Experimental"),
      Some("Pressure"), Some("Force"), Some("frecuencia"),
      Some("Unity theoretical") }

\* A header row is the first row with a cell that is not None, so it has one.
Headers ==
    { h \in UNION { [1..n -> HeaderCells] : n \in 1..MaxLen } :
        \E j \in DOMAIN h : h[j] # None }

\* n data rows under a header of w cells; the cell of row r and column j
\* holds base + r + j - 2, so that rows and columns differ
DataRows(w, n, base) ==
    [r \in 1..n |-> [j \in 1..w |-> Some(base + r + j - 2)]]

\* the rows of a Promedios sheet, with or without fully empty rows around
\* the header
SheetRows(header, n, base, blank) ==
    LET w == Len(header)
    IN  IF blank
        THEN <<BlankRow(w), header, BlankRow(w)>> \o DataRows(w, n, base)
        ELSE <<header>> \o DataRows(w, n, base)

InitLeer ==
    /\ root = <<>>
    /\ pc = "leer"
    /\ fi = 0
    /\ vistos = {}
    /\ leido = [name |-> <<>>, kind |-> "none"]
    /\ consolidado_total = <<>>
    /\ origen = <<>>
    /\ df_todo = [st |-> "unset"]
    /\ salida = <<>>
    /\ log = <<>>
    /\ \/ wb \in { [kind |-> "unreadable", rows |-> <<>>],
                    [kind |-> "nosheet", rows |-> <<>>] }
       \/ \E h \in Headers, n \in 0..MaxRows, b \in 1..MaxCell, blank \in BOOLEAN :
             wb = [kind |-> "sheet", rows |-> SheetRows(h, n, b, blank)]
    /\ frec \in {None, Some("0.25Hz")}
    /\ df = [st |-> "unset"]

\* one call of leer_promedios(path_excel, frecuencia)
Leer ==
    /\ pc = "leer"
    /\ df' = leer_promedios(wb, frec)
    /\ pc' = "leido"
    /\ UNCHANGED <<root, fi, vistos, leido, consolidado_total, origen, df_todo,
                   salida, log, wb, frec>>

NextLeer == Leer

SpecLeer == InitLeer /\ [][NextLeer]_vars

-----------------------------------------------------------------------------
(* Vocabulary of the properties.                                           *)

\* the file name without its extension
BaseName(nombre) == SubSeq(nombre, 1, Len(nombre) - 1)

IsKey(nombre) == BaseName(nombre) \in DOMAIN frecuencia_map

\* the folder loop is between two folders, or the script has ended normally
Between == pc \in {"folders", "done"}

Ended == pc \in {"done", "raised_load", "raised_concat"}

\* the folder fi has just been processed: its line is the last one printed
JustProcessed == Between /\ log # <<>> /\ log[Len(log)].folder = fi

Eligible(i) == root[i].pre = Prefix /\ root[i].proc

\* the header row of a sheet: its first row with a cell that is not None
HeaderOf(workbook) ==
    LET blank(row) == \A j \in DOMAIN row : row[j] = None
        i == CHOOSE k \in DOMAIN workbook.rows :
                 /\ ~blank(workbook.rows[k])
                 /\ \A m \in 1..(k - 1) : blank(workbook.rows[m])
    IN  workbook.rows[i]

NameOf(c) == IF c = None THEN "Unnamed" ELSE Val(c)

\* how many cells before position i of the header h carry the name of cell i
Earlier(h, i) == Cardinality({j \in 1..(i - 1) : NameOf(h[j]) = NameOf(h[i])})

DedupName(h, i) ==
    IF Earlier(h, i) = 0 THEN NameOf(h[i])
    ELSE NameOf(h[i]) \o "_" \o ToString(Earlier(h, i))

Canon(name) ==
    IF name = "slide" THEN "Unity theoretical"
    ELSE IF name = "Experimental" THEN "Laser experimental"
    ELSE name

Returned == pc = "leido" /\ df.st = "df"

Cols(d) == Range(d.columns)

-----------------------------------------------------------------------------
(* Properties of the folder loop (specification Spec).                     *)

\* C1: a file contributes a table only if its base name is a key of
\* frecuencia_map, and then under the label the map gives it; a file with
\* any other base name appends nothing to the accumulator and writes no
\* per-frequency CSV, so every accumulated table comes from a file whose
\* base name is a key and carries that key's label in every row, and every
\* per-frequency CSV of the folder is named after the label of a listed
\* file whose base name is a key.
C1_OnlyMappedFilesContribute ==
    pc = "files" =>
      /\ \A k \in DOMAIN consolidado_total :
           /\ IsKey(origen[k].archivo)
           /\ LET d == consolidado_total[k]
              IN  \A r \in DOMAIN d.data :
                     d.data[r][ColIndex(d, "frecuencia")]
                       = Some(frecuencia_map[BaseName(origen[k].archivo)])
      /\ salida[fi].csv \subseteq
           { CsvName(Some(frecuencia_map[BaseName(a)])) : a \in {b \in vistos : IsKey(b)} }

\* C2: once a folder whose Processing directory lists only files with
\* unmapped base names has been processed, its output directory holds no
\* CSV file and no chart file and its line is the failure line.
C2_UnmappedOnlyFolderFails ==
    (JustProcessed /\ \A a \in vistos : ~IsKey(a)) =>
      /\ salida[fi].csv = {}
      /\ salida[fi].charts = {}
      /\ ~log[Len(log)].ok

\* C3: the consolidated table written to consolidado_total.csv has as many
\* rows as the accumulated tables have together.
C3_ConcatKeepsRowCount ==
    (Between /\ df_todo.st = "df") =>
      /\ "consolidado_total.csv" \in salida[log[Len(log)].folder].csv
      /\ Len(df_todo.df.data)
           = SumSeq([k \in DOMAIN consolidado_total |-> Len(consolidado_total[k].data)])

W3_TwoTablesConcatenated ==
    /\ Between
    /\ df_todo.st = "df"
    /\ Len(consolidado_total) = 2
    /\ Len(consolidado_total[1].data) # Len(consolidado_total[2].data)
    /\ Len(df_todo.df.data) = 3

C8_EveryFolderGetsItsLine ==
    /\ Ended =>
         \A i \in DOMAIN root :
            Eligible(i) => Cardinality({k \in DOMAIN log : log[k].folder = i}) = 1
    /\ pc = "files" => \A k \in DOMAIN origen : origen[k].carpeta = fi

\* C9: a spreadsheet that cannot be read is treated like one without a
\* Promedios sheet: it contributes no table and the loop goes on.
C9_ReadFailureIsSkipped ==
    (leido.kind = "unreadable" /\ PassesFilter(leido.name)) =>
      /\ pc # "raised_load"
      /\ \A k \in DOMAIN origen :
            origen[k] # [carpeta |-> fi, archivo |-> leido.name]

-----------------------------------------------------------------------------
(* Properties of leer_promedios (specification SpecLeer).                  *)

\* C4: the columns of the returned table follow the header in order: the
\* first occurrence of a name keeps it, the k-th later occurrence becomes
\* name_k, and a None header counts as the name Unnamed (the two renamed
\* columns appear under their display names).
C4_HeaderDeduplication ==
    Returned =>
      LET h == HeaderOf(wb)
      IN  /\ Len(df.df.columns) >= Len(h)
          /\ \A i \in DOMAIN h : df.df.columns[i] = Canon(DedupName(h, i))

W4_RepeatedHeader ==
    /\ Returned
    /\ HeaderOf(wb) = <<Some("time"), Some("value"), Some("value")>>
    /\ SubSeq(df.df.columns, 1, 3) = <<"time", "value", "value_1">>

W4b_UnnamedRepeated ==
    /\ Returned
    /\ HeaderOf(wb) = <<None, Some("value"), None>>
    /\ SubSeq(df.df.columns, 1, 3) = <<"Unnamed", "value", "Unnamed_1">>

\* C5 as stated: the returned table has no column slide and no column
\* Experimental, wherever the header had slide or Experimental the table
\* has the display name, and renaming again changes nothing.
C5_RenamedWhereverPresent ==
    Returned =>
      LET h == HeaderOf(wb)
      IN  /\ "slide" \notin Cols(df.df)
          /\ "Experimental" \notin Cols(df.df)
          /\ \A i \in DOMAIN h :
               /\ h[i] = Some("slide") => df.df.columns[i] = "Unity theoretical"
               /\ h[i] = Some("Experimental") => df.df.columns[i] = "Laser experimental"
          /\ RenameAll(df.df) = df.df

\* C5 amended: the returned table has no column slide and no column
\* Experimental, the first slide and the first Experimental of the header
\* appear under the display name (a later occurrence is slide_k or
\* Experimental_k), and renaming again changes nothing.
C5_FirstOccurrenceRenamed ==
    Returned =>
      LET h == HeaderOf(wb)
      IN  /\ "slide" \notin Cols(df.df)
          /\ "Experimental" \notin Cols(df.df)
          /\ \A i \in DOMAIN h :
               /\ (h[i] = Some("slide") /\ Earlier(h, i) = 0)
                    => df.df.columns[i] = "Unity theoretical"
               /\ (h[i] = Some("Experimental") /\ Earlier(h, i) = 0)
                    => df.df.columns[i] = "Laser experimental"
               /\ (h[i] = Some("slide") /\ Earlier(h, i) > 0)
                    => df.df.columns[i] = "slide_" \o ToString(Earlier(h, i))
               /\ (h[i] = Some("Experimental") /\ Earlier(h, i) > 0)
                    => df.df.columns[i] = "Experimental_" \o ToString(Earlier(h, i))
          /\ Rename(Rename(df.df, "slide", "Unity theoretical"),
                    "Experimental", "Laser experimental") = df.df

W5_BothRenamed ==
    /\ Returned
    /\ Some("slide") \in Range(HeaderOf(wb))
    /\ Some("Experimental") \in Range(HeaderOf(wb))
    /\ {"Unity theoretical", "Laser experimental"} \subseteq Cols(df.df)

\* C6: when the returned table has a Pressure column it has a Force column
\* and in every row Force is 0.00079173 * 6894.76 * Pressure of that row
\* (54587883348 * 10^-10 times Pressure); without a Pressure column the
\* table has a Force column only if the header had one, with the sheet's
\* own values.
C6_ForceFromPressure ==
    Returned =>
      LET d == df.df
          h == HeaderOf(wb)
          Product(p) == [hi |-> 54587883 * p + ((348 * p) \div 1000),
                         lo |-> (348 * p) % 1000]
      IN  IF "Pressure" \in Cols(d)
          THEN /\ "Force" \in Cols(d)
               /\ \A r \in DOMAIN d.data :
                    \A i, j \in DOMAIN d.columns :
                       (d.columns[i] = "Pressure" /\ d.columns[j] = "Force")
                         => d.data[r][j] = Some(Product(Val(d.data[r][i])))
          ELSE /\ "Force" \in Cols(d) <=> Some("Force") \in Range(h)
               /\ Len(d.columns) = Len(h) + (IF Some("frecuencia") \in Range(h) THEN 0 ELSE 1)
               /\ \A r \in DOMAIN d.data :
                    \A j \in DOMAIN h :
                       d.columns[j] = "Force"
                         => d.data[r][j] = NonEmptyRows(wb.rows)[r + 1][j]

W6_ForcePerRow ==
    /\ Returned
    /\ "Pressure" \in Cols(df.df)
    /\ Len(df.df.data) >= 2
    /\ LET d == df.df
       IN  /\ d.data[1][ColIndex(d, "Pressure")] # d.data[2][ColIndex(d, "Pressure")]
           /\ d.data[1][ColIndex(d, "Force")] # d.data[2][ColIndex(d, "Force")]

\* C10: the column names of the returned table are pairwise distinct.
C10_ColumnNamesDistinct ==
    Returned => ~HasDuplicates(df.df.columns)

====
